---- MODULE Spec2Model ----
(***************************************************************************)
(* A model of src/brent.py: a Streamlit script that downloads 15-minute    *)
(* price bars, memoises the download with st.cache_data, adds a 20-period  *)
(* simple moving average, cleans the frame and renders a chart, a table, a *)
(* summary and a CSV download.                                             *)
(*                                                                         *)
(* One script run (a Streamlit rerun, lines 59-170) is one step.  Dates    *)
(* are day numbers.  A cell of a data frame is a sequence: <<>> is a       *)
(* missing value (NaN / NaT), <<x>> a present value, and <<s, n>> the      *)
(* exact quotient s / n of a rolling mean (floating-point rounding is not  *)
(* modelled).                                                              *)
(***************************************************************************)
EXTENDS Integers, Sequences, FiniteSets, TLC

VARIABLES today, ticker_symbol, start_date, end_date,
          safe_default_start_date, min_selectable_date,
          function_caches, provider, data_df, df_plot, fig, page, status,
          calls

vars == <<today, ticker_symbol, start_date, end_date,
          safe_default_start_date, min_selectable_date,
          function_caches, provider, data_df, df_plot, fig, page, status,
          calls>>

----------------------------------------------------------------------------
(* Bounds of the model *)

\* script runs in one process lifetime
MaxRuns == 3
\* midnights that pass during the process lifetime
MaxDayAdvance == 1
\* rows of the longest provider frame of the series specification
MaxRows == 22
\* day number of the day the process starts
StartDay == 1000

(* Program constants *)

MAX_DAYS == 60
WINDOW == 20

interval == "15m"
selected_interval_label == "15 minute (15m)"

----------------------------------------------------------------------------
(* Cells and frames *)

NaN == <<>>
Val(x) == <<x>>
isna(c) == c = NaN

\* F applied to the value of x, with x evaluated once
Let(x, F(_)) == CHOOSE r \in {F(v) : v \in {x}} : TRUE

\* a sequence, and a row (a map from column names to cells), as explicit values
AsSeq(s) == s \o <<>>
AsRow(f) == f @@ <<>>

\* pd.DataFrame(): no columns, no rows
EmptyFrame ==
    [index_name |-> "", index |-> <<>>, columns |-> <<>>, rows |-> <<>>,
     numeric |-> TRUE]

\* DataFrame.empty: some axis has length 0
empty(df) == Len(df.rows) = 0 \/ Len(df.columns) = 0

ColSet(df) == {df.columns[i] : i \in 1..Len(df.columns)}

\* the column df[c] as a sequence of cells
Column(df, c) == AsSeq([i \in 1..Len(df.rows) |-> df.rows[i][c]])

\* df[c] = col: a new column is appended, an existing one overwritten
SetColumn(df, c, col) ==
    [df EXCEPT
       !.columns = IF c \in ColSet(df) THEN df.columns ELSE Append(df.columns, c),
       !.rows = AsSeq([i \in 1..Len(df.rows) |->
                         AsRow([k \in ColSet(df) \cup {c} |->
                                  IF k = c THEN col[i] ELSE df.rows[i][k]])])]

----------------------------------------------------------------------------
(* Series.rolling(window).mean(): pandas slides over the column keeping    *)
(* the running sum and the number of present observations; a row's mean is *)
(* defined when min_periods (= window) observations are in the window.     *)

RollStep_mut(x, window, i, prev) ==
    IF isna(x[i]) THEN prev
    ELSE [sum |-> prev.sum + x[i][1], nobs |-> prev.nobs + 1]

RollStep(x, window, i, prev) ==
    LET added == IF isna(x[i]) THEN prev
                 ELSE [sum |-> prev.sum + x[i][1], nobs |-> prev.nobs + 1]
    IN  IF i > window /\ ~isna(x[i - window])
        THEN [sum |-> added.sum - x[i - window][1], nobs |-> added.nobs - 1]
        ELSE added

min_periods_mut(window) == 1

min_periods(window) == window

RollMean(st, window) ==
    IF st.nobs >= min_periods(window) THEN <<st.sum, st.nobs>> ELSE NaN

RECURSIVE RollFrom(_, _, _, _, _)
RollFrom(x, window, i, prev, out) ==
    IF i > Len(x) THEN out
    ELSE Let(RollStep(x, window, i, prev),
             LAMBDA st : RollFrom(x, window, i + 1, st,
                                  Append(out, RollMean(st, window))))

rolling_mean(x, window) == RollFrom(x, window, 1, [sum |-> 0, nobs |-> 0], <<>>)

----------------------------------------------------------------------------
(* load_data (lines 24-53).  The provider's answer is the input `outcome`: *)
(* [raises |-> TRUE] when yf.download throws, else [raises |-> FALSE,      *)
(* frame |-> the frame it returns].                                        *)

Raised == [raised |-> TRUE, error |-> FALSE, cleared |-> FALSE, ret |-> EmptyFrame]

\* lines 30-48: the body of the try block
TryBody(outcome) ==
    IF outcome.raises THEN Raised
    ELSE LET data == outcome.frame
         IN  IF empty(data) \/ "Close" \notin ColSet(data)
             THEN [raised |-> FALSE, error |-> TRUE, cleared |-> TRUE,
                   ret |-> EmptyFrame]
             ELSE IF ~data.numeric
             THEN Raised   \* rolling().mean() throws on a non-numeric column
             ELSE Let(rolling_mean(Column(data, "Close"), WINDOW),
                      LAMBDA sma :
                        [raised |-> FALSE, error |-> FALSE, cleared |-> FALSE,
                         ret |-> SetColumn(data, "SMA_20", sma)])

ExceptBranch_mut(b) == b

ExceptBranch_noclear(b) ==
    [raised |-> FALSE, error |-> TRUE, cleared |-> FALSE, ret |-> EmptyFrame]

\* lines 50-53: except Exception
ExceptBranch(b) ==
    [raised |-> FALSE, error |-> TRUE, cleared |-> TRUE, ret |-> EmptyFrame]

load_data(outcome) ==
    Let(TryBody(outcome), LAMBDA b : IF b.raised THEN ExceptBranch(b) ELSE b)

----------------------------------------------------------------------------
(* st.cache_data (line 23).  function_caches maps a cached function to its *)
(* cache, a map from argument tuples to [value, messages].  A call looks   *)
(* the function's cache up (creating it when absent), returns the stored   *)
(* value on a hit and, on a miss, runs the function and writes its result  *)
(* to the cache object it looked up.  st.cache_data.clear() drops every    *)
(* function's cache object, so a result written after a clear inside the   *)
(* function lands in a discarded object.                                   *)

Put(f, k, v) == (k :> v) @@ f

get_cache(fc, fkey) == IF fkey \in DOMAIN fc THEN fc ELSE Put(fc, fkey, <<>>)

clear_all_mut(fc, fkey, key) ==
    IF fkey \in DOMAIN fc
    THEN [fc EXCEPT ![fkey] = AsRow([k \in DOMAIN fc[fkey] \ {key} |-> fc[fkey][k]])]
    ELSE fc

\* st.cache_data.clear(), called from inside fkey's call with arguments key
clear_all(fc, fkey, key) == <<>>

Messages(r) == IF r.error THEN {"info", "error"} ELSE {"info"}

Result(fc, r, downloaded) ==
    [function_caches |-> fc, ret |-> r.ret, downloaded |-> downloaded,
     error |-> r.error, raised |-> r.raised, messages |-> Messages(r)]

\* a miss: the function runs, and write_result goes to the cache object
\* looked up before the call, which is visible afterwards only if it is
\* still the registered one
Miss(fc1, key, outcome) ==
    Let(load_data(outcome),
        LAMBDA r :
          Let(IF r.cleared THEN clear_all(fc1, "load_data", key) ELSE fc1,
              LAMBDA fc2 :
                Result(IF ~r.raised /\ "load_data" \in DOMAIN fc2
                       THEN [fc2 EXCEPT !["load_data"] =
                               Put(@, key, [value |-> r.ret,
                                            messages |-> Messages(r)])]
                       ELSE fc2,
                       r, TRUE)))

\* a hit: the stored value is returned and the stored messages are replayed
Hit(fc1, key) ==
    [function_caches |-> fc1, ret |-> fc1["load_data"][key].value,
     downloaded |-> FALSE, error |-> "error" \in fc1["load_data"][key].messages,
     raised |-> FALSE, messages |-> fc1["load_data"][key].messages]

CachedCall_mut(fc, key, outcome) ==
    Let(load_data(outcome),
        LAMBDA r : Result(get_cache(fc, "load_data"), r, TRUE))

CachedCall(fc, key, outcome) ==
    Let(get_cache(fc, "load_data"),
        LAMBDA fc1 : IF key \in DOMAIN fc1["load_data"]
                     THEN Hit(fc1, key)
                     ELSE Miss(fc1, key, outcome))

----------------------------------------------------------------------------
(* The frame operations of the main script (lines 92-127) *)

\* DataFrame.reset_index(): the index becomes the first column, named after
\* the index; the new index is 0..n-1
reset_index(df) ==
    [df EXCEPT
       !.index = AsSeq([i \in 1..Len(df.rows) |-> Val(i - 1)]),
       !.columns = <<df.index_name>> \o df.columns,
       !.rows = AsSeq([i \in 1..Len(df.rows) |->
                         AsRow([k \in ColSet(df) \cup {df.index_name} |->
                                  IF k = df.index_name THEN df.index[i]
                                  ELSE df.rows[i][k]])])]

\* DataFrame.rename(columns={old: new})
rename(df, old, new) ==
    LET to(k) == IF k = old THEN new ELSE k
        from(k) == IF k = new THEN old ELSE k
    IN  [df EXCEPT
           !.columns = AsSeq([i \in 1..Len(df.columns) |-> to(df.columns[i])]),
           !.rows = AsSeq([i \in 1..Len(df.rows) |->
                             AsRow([k \in {to(c) : c \in ColSet(df)} |->
                                      df.rows[i][from(k)]])])]

\* the rows of df, in order, that have a value in every column of subset;
\* a kept row keeps its index label
DropRows(df, subset) ==
    LET keep(i) == \A c \in subset : ~isna(df.rows[i][c])
    IN  Let(SelectSeq([i \in 1..Len(df.rows) |-> i], keep),
            LAMBDA pos :
              [df EXCEPT
                 !.index = AsSeq([j \in 1..Len(pos) |-> df.index[pos[j]]]),
                 !.rows = AsSeq([j \in 1..Len(pos) |-> df.rows[pos[j]]])])

dropna_mut(df, subset) == DropRows(df, ColSet(df))

\* DataFrame.dropna(subset=...)
dropna(df, subset) == DropRows(df, subset)

\* DataFrame.melt(id_vars=[id], value_vars=vs, var_name='Series',
\* value_name='Value'): one block of rows per value column
RECURSIVE melt(_, _, _)
melt(df, id, vs) ==
    IF vs = <<>> THEN <<>>
    ELSE AsSeq([i \in 1..Len(df.rows) |->
                  [Datetime |-> df.rows[i][id], Series |-> Head(vs),
                   Value |-> df.rows[i][Head(vs)]]])
         \o melt(df, id, Tail(vs))

known_cols == {"Open", "High", "Low", "Close", "Volume", "SMA_20"}

NoRender(st, pg, df) == [status |-> st, page |-> pg, df_plot |-> df, fig |-> <<>>]

\* lines 119-170: chart, table, summary and CSV of a cleaned frame
Present(df) ==
    [status |-> "rendered",
     page |-> {"subheader", "chart", "table", "summary", "csv"},
     df_plot |-> df,
     fig |-> melt(df, "Datetime", <<"Close", "SMA_20">>)]

AfterCleaning_mut(df) == Present(df)

\* lines 114-117: the final check after cleaning
AfterCleaning(df) ==
    IF empty(df)
    THEN NoRender("stopped_clean", {"subheader", "error"}, df)
    ELSE Present(df)

\* lines 96-117: the timestamp column is the one column that is not a
\* known one; it is renamed, and the rows without a price or a timestamp
\* are dropped
Clean(df0) ==
    Let(SelectSeq(df0.columns, LAMBDA c : c \notin known_cols),
        LAMBDA datetime_col_candidates :
          IF Len(datetime_col_candidates) = 1
          THEN Let(rename(df0, datetime_col_candidates[1], "Datetime"),
                   LAMBDA df1 : Let(dropna(df1, {"Close", "Datetime"}),
                                    AfterCleaning))
          ELSE NoRender("stopped_columns", {"subheader", "error"}, df0))

\* lines 88-170: what a run shows for the frame load_data returned
Render(df) ==
    IF empty(df) THEN NoRender("empty", {}, EmptyFrame)
    ELSE Let(reset_index(df), Clean)

----------------------------------------------------------------------------
(* The sidebar (lines 59-78) *)

default_start(day) == day - MAX_DAYS

min_selectable_mut(day) == day - MAX_DAYS

min_selectable(day) == day - (MAX_DAYS + 1)

\* st.date_input accepts min_value <= d <= max_value; an omitted bound is
\* ten years from the default value
StartAllowed(d, day) ==
    d >= min_selectable(day) /\ d <= default_start(day) + 10 * 365

EndAllowed(d, day) == d >= day - 10 * 365 /\ d <= day + 10 * 365

----------------------------------------------------------------------------
(* Inputs: what the user types and what the provider answers *)

Tickers == {"CL=F", "BZ=F"}

\* the start dates the user tries, as offsets from today (the widget
\* refuses those before min_value)
StartOffsets == {0 - (MAX_DAYS + 2), 0 - (MAX_DAYS + 1), 0 - MAX_DAYS, 1}

EndOffsets == {0 - 1, 0}

\* A provider frame: 15-minute bars indexed by strictly increasing
\* timestamps (minutes), one Close cell per bar.  Open, High and Low are
\* carried like Volume and are left out.
ProviderFrame(closes, cols, numeric) ==
    [index_name |-> "Datetime",
     index |-> [i \in 1..Len(closes) |-> Val(15 * i)],
     columns |-> cols,
     rows |-> [i \in 1..Len(closes) |->
                 [k \in {cols[j] : j \in 1..Len(cols)} |->
                    IF k = "Close" THEN closes[i] ELSE Val(0)]],
     numeric |-> numeric]

Answer(frame) == [raises |-> FALSE, frame |-> frame]

DownloadFails == [raises |-> TRUE, frame |-> EmptyFrame]

\* the answers of the pipeline specification: a failure, zero rows, no
\* Close column, a non-numeric Close column, an unknown extra column, and
\* short priced frames with and without missing prices
Outcomes ==
    {DownloadFails,
     Answer(ProviderFrame(<<>>, <<"Close", "Volume">>, TRUE)),
     Answer(ProviderFrame(<<Val(10)>>, <<"Volume">>, TRUE)),
     Answer(ProviderFrame(<<Val(10)>>, <<"Close", "Volume">>, FALSE)),
     Answer(ProviderFrame(<<Val(10)>>, <<"Adj Close", "Close", "Volume">>, TRUE)),
     Answer(ProviderFrame(<<NaN>>, <<"Close", "Volume">>, TRUE)),
     Answer(ProviderFrame(<<Val(10)>>, <<"Close", "Volume">>, TRUE)),
     Answer(ProviderFrame(<<Val(10), NaN>>, <<"Close", "Volume">>, TRUE))}

\* the answers of the series specification: n bars, at most one of them
\* (bar gap) without a price, prices constant or varying
Price(pattern, i) == IF pattern = 1 THEN 10 ELSE 10 + ((i * i) % 7)

SeriesFrame(n, gap, pattern) ==
    ProviderFrame([i \in 1..n |-> IF i = gap THEN NaN ELSE Val(Price(pattern, i))],
                  <<"Close", "Volume">>, TRUE)

SeriesOutcomes ==
    {DownloadFails}
    \cup {Answer(SeriesFrame(n, gap, pattern)) :
            n \in 0..MaxRows, gap \in 0..MaxRows, pattern \in 1..2}

----------------------------------------------------------------------------
(* The state machine *)

Init ==
    /\ today = StartDay
    /\ ticker_symbol = "CL=F"
    /\ start_date = default_start(StartDay)
    /\ end_date = StartDay
    /\ safe_default_start_date = default_start(StartDay)
    /\ min_selectable_date = min_selectable(StartDay)
    /\ function_caches = <<>>
    /\ provider = <<>>
    /\ data_df = EmptyFrame
    /\ df_plot = EmptyFrame
    /\ fig = <<>>
    /\ page = {}
    /\ status = "init"
    /\ calls = <<>>

\* One run of the script (lines 59-170) on day `day` with the widgets at
\* t, s, e, the provider answering `outcome` if it is asked.  provider holds
\* the answer the run's download got (<<>> when the run downloaded nothing),
\* calls the load_data calls of the process so far.
Script(t, s, e, day, outcome) ==
    \E key \in {<<t, s, e, interval, selected_interval_label>>} :
    \E c \in {CachedCall(function_caches, key, outcome)} :
    \E r \in {IF c.raised THEN NoRender("crashed", {}, EmptyFrame)
               ELSE Render(c.ret)} :
        /\ Len(calls) < MaxRuns
        /\ today' = day
        /\ ticker_symbol' = t
        /\ start_date' = s
        /\ end_date' = e
        /\ safe_default_start_date' = default_start(day)
        /\ min_selectable_date' = min_selectable(day)
        /\ function_caches' = c.function_caches
        /\ provider' = IF c.downloaded THEN <<outcome>> ELSE <<>>
        /\ data_df' = c.ret
        /\ df_plot' = r.df_plot
        /\ fig' = r.fig
        /\ page' = c.messages \cup r.page
        /\ status' = r.status
        /\ calls' = Append(calls,
                           [key |-> key, downloaded |-> c.downloaded,
                            usable |-> ~c.raised /\ ~empty(c.ret),
                            error |-> c.error, raised |-> c.raised])

\* the provider is asked only on a cache miss: on a hit no answer is drawn
Cached(t, s, e) ==
    /\ "load_data" \in DOMAIN function_caches
    /\ <<t, s, e, interval, selected_interval_label>>
           \in DOMAIN function_caches["load_data"]

Asked(t, s, e, answers) == IF Cached(t, s, e) THEN {DownloadFails} ELSE answers

\* the page is loaded, or rerun with the widgets as they are
Rerun(answers) ==
    \E outcome \in Asked(ticker_symbol, start_date, end_date, answers) :
        Script(ticker_symbol, start_date, end_date, today, outcome)

\* line 62: the user types another ticker
ChangeTicker(answers) ==
    /\ calls # <<>>
    /\ \E t \in Tickers \ {ticker_symbol} :
       \E outcome \in Asked(t, start_date, end_date, answers) :
           Script(t, start_date, end_date, today, outcome)

\* lines 73-77: the user picks another start date
ChangeStart(answers) ==
    /\ calls # <<>>
    /\ \E off \in StartOffsets :
       \E outcome \in Asked(ticker_symbol, today + off, end_date, answers) :
           /\ today + off # start_date
           /\ StartAllowed(today + off, today)
           /\ Script(ticker_symbol, today + off, end_date, today, outcome)

\* line 78: the user picks another end date
ChangeEnd(answers) ==
    /\ calls # <<>>
    /\ \E off \in EndOffsets :
       \E outcome \in Asked(ticker_symbol, start_date, today + off, answers) :
           /\ today + off # end_date
           /\ EndAllowed(today + off, today)
           /\ Script(ticker_symbol, start_date, today + off, today, outcome)

\* line 68: a rerun after midnight; the date widgets are built from new
\* defaults and bounds and start over at their default values
NewDay(answers) ==
    /\ calls # <<>>
    /\ today < StartDay + MaxDayAdvance
    /\ \E outcome \in Asked(ticker_symbol, default_start(today + 1),
                            today + 1, answers) :
           Script(ticker_symbol, default_start(today + 1), today + 1,
                  today + 1, outcome)

Next ==
    \/ Rerun(Outcomes)
    \/ ChangeTicker(Outcomes)
    \/ ChangeStart(Outcomes)
    \/ ChangeEnd(Outcomes)
    \/ NewDay(Outcomes)

Spec == Init /\ [][Next]_vars

\* the series specification: the page is loaded and rerun with the default
\* query, the provider answering with frames long enough for the window
NextSeries == Rerun(SeriesOutcomes)

SpecSeries == Init /\ [][NextSeries]_vars

----------------------------------------------------------------------------
(* The range resolver of the specification (section 4.1).  The script      *)
(* fixes the interval at 15m; the table for the other intervals is not in  *)
(* the source file.                                                        *)

Intervals == {"1m", "5m", "15m", "30m", "1h", "1d"}

MaxLookback(iv) ==
    CASE iv \in {"1m", "5m", "30m"} -> 7
      [] iv \in {"1h", "15m"} -> 60
      [] OTHER -> 1825

resolve(iv, day) ==
    [max_lookback_days |-> MaxLookback(iv),
     default_start_date |-> day - MaxLookback(iv),
     min_selectable_date |-> IF iv = "1d" THEN 0
                             ELSE day - (MaxLookback(iv) + 1)]

----------------------------------------------------------------------------
(* Properties *)

Ran == calls # <<>>
LastCall == calls[Len(calls)]

\* a call that downloaded and came back without usable data
Failed(c) == c.downloaded /\ ~c.usable

SameQuery(i, j) == calls[i].key = calls[j].key

\* no call strictly between i and j asks for call j's query
NextForQuery(i, j) == \A m \in (i + 1)..(j - 1) : ~SameQuery(m, j)

\* C1 as stated: a call whose query tuple equals that of an earlier call
\* that returned usable data is served without a new download.
C1_NoSecondDownload ==
    \A i, j \in 1..Len(calls) :
        (i < j /\ SameQuery(i, j) /\ calls[i].usable) => ~calls[j].downloaded

\* C1 amended: a call whose query tuple equals that of an earlier call that
\* returned usable data is served without a new download, provided no call
\* in between downloaded a degenerate result or hit an exception.
C1_NoSecondDownloadUnlessCleared ==
    \A i, j \in 1..Len(calls) :
        (/\ i < j
         /\ SameQuery(i, j)
         /\ calls[i].usable
         /\ \A m \in (i + 1)..(j - 1) : ~Failed(calls[m]))
        => ~calls[j].downloaded

C1_Witness ==
    \E i, j \in 1..Len(calls) :
        /\ i < j
        /\ SameQuery(i, j)
        /\ calls[i].usable /\ calls[i].downloaded
        /\ ~calls[j].downloaded

\* C2: after a call that downloaded a degenerate result (zero rows, no
\* Close column, an exception), the next call with the same query tuple
\* downloads again.
C2_RetryAfterDegenerate ==
    \A i, j \in 1..Len(calls) :
        (i < j /\ SameQuery(i, j) /\ Failed(calls[i]) /\ NextForQuery(i, j))
        => calls[j].downloaded

C2_Witness ==
    \E i, j \in 1..Len(calls) :
        /\ i < j
        /\ SameQuery(i, j)
        /\ Failed(calls[i])
        /\ NextForQuery(i, j)
        /\ calls[j].downloaded

\* what load_data has to turn into an error: the download throws, zero
\* rows, no Close column, or a Close column the rolling mean throws on
Unusable(o) ==
    \/ o.raises
    \/ Len(o.frame.rows) = 0
    \/ "Close" \notin ColSet(o.frame)
    \/ ~o.frame.numeric

\* C3: load_data never raises; a download that throws, returns zero rows or
\* no Close column, or whose indicator computation throws, ends in an error
\* message and an empty frame; a non-empty frame is returned only for a
\* download with at least one row and a Close column.
C3_NeverRaises ==
    Ran =>
      /\ ~LastCall.raised
      /\ status # "crashed"
      /\ (provider # <<>> /\ Unusable(provider[1])) =>
            /\ empty(data_df)
            /\ LastCall.error
            /\ "error" \in page
      /\ (provider # <<>> /\ ~empty(data_df)) =>
            /\ ~provider[1].raises
            /\ Len(provider[1].frame.rows) >= 1
            /\ "Close" \in ColSet(provider[1].frame)

C3_Witness ==
    /\ Ran
    /\ provider # <<>>
    /\ provider[1].raises
    /\ ~LastCall.raised
    /\ empty(data_df)
    /\ "error" \in page

\* the rows of the returned frame that have a close price and a timestamp
ValidRows(df) ==
    {i \in 1..Len(df.rows) :
        /\ "Close" \in DOMAIN df.rows[i]
        /\ ~isna(df.rows[i]["Close"])
        /\ ~isna(df.index[i])}

Outputs == {"chart", "table", "summary", "csv"}

\* C4: when the fetch result is empty or cleaning leaves zero rows, the run
\* ends with nothing displayed: no chart, table, summary or CSV; a chart is
\* produced only from a non-empty cleaned frame.
C4_NothingToDisplay ==
    Ran =>
      /\ (empty(data_df) \/ ValidRows(data_df) = {}) =>
            /\ page \cap Outputs = {}
            /\ fig = <<>>
            /\ status \in {"empty", "stopped_clean", "stopped_columns"}
      /\ ("chart" \in page \/ fig # <<>>) =>
            /\ ~empty(df_plot)
            /\ ValidRows(data_df) # {}
            /\ \A j \in 1..Len(df_plot.rows) :
                  /\ ~isna(df_plot.rows[j]["Close"])
                  /\ ~isna(df_plot.rows[j]["Datetime"])

C4_Witness ==
    /\ ~empty(data_df)
    /\ ValidRows(data_df) = {}
    /\ status = "stopped_clean"
    /\ page \cap Outputs = {}

\* the position in data_df of row j of the cleaned frame
Origin(j) == df_plot.index[j][1] + 1

Cleaned == status \in {"rendered", "stopped_clean"}

\* C5: cleaning removes exactly the rows without a timestamp or a close
\* price and keeps the others in their order; of a frame whose prices are
\* all present it keeps every row, with strictly increasing timestamps.
C5_CleaningKeepsValidRows ==
    Cleaned =>
      /\ {Origin(j) : j \in 1..Len(df_plot.rows)} = ValidRows(data_df)
      /\ \A j \in 1..Len(df_plot.rows) :
            /\ df_plot.rows[j]["Close"] = data_df.rows[Origin(j)]["Close"]
            /\ df_plot.rows[j]["Datetime"] = data_df.index[Origin(j)]
      /\ \A j, k \in 1..Len(df_plot.rows) : j < k => Origin(j) < Origin(k)
      /\ (\A i \in 1..Len(data_df.rows) : ~isna(data_df.rows[i]["Close"])) =>
            /\ Len(df_plot.rows) = Len(data_df.rows)
            /\ \A j, k \in 1..Len(df_plot.rows) :
                  j < k => df_plot.rows[j]["Datetime"][1]
                              < df_plot.rows[k]["Datetime"][1]

C5_Witness ==
    /\ status = "rendered"
    /\ Len(data_df.rows) > WINDOW
    /\ Len(df_plot.rows) = Len(data_df.rows) - 1

RECURSIVE SumCells(_, _, _)
SumCells(x, lo, hi) == IF lo > hi THEN 0 ELSE x[hi][1] + SumCells(x, lo, hi - 1)

WindowFull(x, i) == \A k \in (i - WINDOW + 1)..i : ~isna(x[k])

\* the arithmetic mean of the WINDOW cells of x that end at i
WindowMean(x, i) == <<SumCells(x, i - WINDOW + 1, i), WINDOW>>

\* the arithmetic mean of the prices present among the WINDOW cells of x
\* that end at i
PresentMean(x, i) ==
    LET present == {k \in (i - WINDOW + 1)..i : ~isna(x[k])}
        zeroed == [k \in 1..Len(x) |-> IF isna(x[k]) THEN Val(0) ELSE x[k]]
    IN  <<SumCells(zeroed, i - WINDOW + 1, i), Cardinality(present)>>

\* C6 as stated: SMA_20 is missing in the first 19 rows and, in every later
\* row, is the mean of the close prices of that row and the 19 before it.
C6_SmaIsTrailingMean ==
    ~empty(data_df) =>
      \A i \in 1..Len(data_df.rows) :
          IF i < WINDOW
          THEN isna(data_df.rows[i]["SMA_20"])
          ELSE /\ ~isna(data_df.rows[i]["SMA_20"])
               /\ data_df.rows[i]["SMA_20"]
                     = PresentMean(Column(data_df, "Close"), i)

\* C6 amended: SMA_20 is missing in the first 19 rows; in a later row it is
\* the mean of the close prices of that row and the 19 before it when all
\* 20 are present, and missing when one of them is missing.
C6_SmaIsTrailingMeanOfFullWindow ==
    ~empty(data_df) =>
      \A i \in 1..Len(data_df.rows) :
          data_df.rows[i]["SMA_20"] =
             IF i >= WINDOW /\ WindowFull(Column(data_df, "Close"), i)
             THEN WindowMean(Column(data_df, "Close"), i)
             ELSE NaN

C6_Witness ==
    /\ Len(data_df.rows) > WINDOW
    /\ ~isna(data_df.rows[Len(data_df.rows)]["SMA_20"])
    /\ isna(data_df.rows[WINDOW]["SMA_20"])
    /\ isna(data_df.rows[WINDOW - 1]["SMA_20"])
    /\ data_df.rows[Len(data_df.rows)]["SMA_20"][1]
          # 10 * data_df.rows[Len(data_df.rows)]["SMA_20"][2]

\* C7: every query passed to load_data has start_date <= end_date and, at
\* the 15-minute interval, spans at most 60 days.
C7_QueryWithinLookback ==
    \A i \in 1..Len(calls) :
        /\ calls[i].key[2] <= calls[i].key[3]
        /\ calls[i].key[4] = "15m" =>
              calls[i].key[3] - calls[i].key[2] <= MAX_DAYS

ChartSeries(name) ==
    LET picked == SelectSeq(fig, LAMBDA r : r.Series = name)
    IN  [j \in 1..Len(picked) |-> picked[j].Value]

\* C9 as stated: the moving average is computed over the normalized series:
\* the SMA line of the chart is the rolling mean of the chart's price line.
C9_SmaOverCleanedSeries ==
    status = "rendered" =>
        ChartSeries("SMA_20") = rolling_mean(ChartSeries("Close"), WINDOW)

\* C9 amended: the moving average is computed over the fetched series,
\* before cleaning: a charted SMA value is the one of the row's place in
\* the fetched frame, a missing price in the 20 fetched rows ending there
\* makes it missing, and every defined value is the mean of the 20 most
\* recent rows that survived cleaning.
C9_SmaOverFetchedSeries ==
    status = "rendered" =>
      /\ Len(ChartSeries("SMA_20")) = Len(df_plot.rows)
      /\ Len(ChartSeries("Close")) = Len(df_plot.rows)
      /\ \A j \in 1..Len(df_plot.rows) :
            /\ ChartSeries("SMA_20")[j] = data_df.rows[Origin(j)]["SMA_20"]
            /\ ChartSeries("Close")[j] = data_df.rows[Origin(j)]["Close"]
            /\ (Origin(j) < WINDOW
                \/ ~WindowFull(Column(data_df, "Close"), Origin(j)))
                  => isna(ChartSeries("SMA_20")[j])
            /\ ~isna(ChartSeries("SMA_20")[j]) =>
                  /\ j >= WINDOW
                  /\ ChartSeries("SMA_20")[j]
                        = WindowMean(ChartSeries("Close"), j)

C9_Witness ==
    /\ status = "rendered"
    /\ Len(df_plot.rows) = WINDOW + 1
    /\ Len(data_df.rows) = WINDOW + 2
    /\ isna(ChartSeries("SMA_20")[WINDOW])
    /\ ~isna(ChartSeries("SMA_20")[WINDOW + 1])

\* C10: a degenerate result or an exception for one query empties the whole
\* cache: the next call for any other query that was cached before it
\* downloads again.
C10_FailureClearsEveryQuery ==
    \A h, i, j \in 1..Len(calls) :
        (/\ h < i /\ i < j
         /\ Failed(calls[i])
         /\ ~SameQuery(i, j)
         /\ SameQuery(h, j)
         /\ calls[h].usable
         /\ NextForQuery(i, j))
        => calls[j].downloaded

C10_Witness ==
    \E h, i, j \in 1..Len(calls) :
        /\ h < i /\ i < j
        /\ Failed(calls[i])
        /\ ~SameQuery(i, j)
        /\ SameQuery(h, j)
        /\ calls[h].usable
        /\ NextForQuery(i, j)
        /\ calls[j].downloaded

====
